---- MODULE Spec2Model ----
(***************************************************************************)
(* BlackHoleEscape (src/main/main.py): the analysis-and-scheduling engine. *)
(* Deadline resolution, fuzzy curriculum-progress matching, risk           *)
(* classification, the weekly scheduler and the plan assembler.            *)
(*                                                                         *)
(* Python values are modelled as follows.                                  *)
(*   str            a TLA+ string, read character by character with SubSeq *)
(*   Optional[x]    None is <<>>, a present value v is <<v>>               *)
(*   datetime       [tz |-> BOOLEAN, t |-> Int]: t counts units of         *)
(*                  1/UnitsPerDay day, tz tells an aware from a naive value*)
(*   float level    an integer number of hundredths (3.0 is 300)           *)
(*   list           a sequence;  dict: a record                            *)
(***************************************************************************)
EXTENDS Integers, Sequences, FiniteSets, TLC

None == <<>>
Some(v) == <<v>>
Val(o) == o[1]

(***************************************************************************)
(* Strings: str.lower, str.strip, str.replace, ' '.join(str.split()), the  *)
(* operator "in" on strings                                                *)
(***************************************************************************)
UpperChars == "ABCDEFGHIJKLMNOPQRSTUVWXYZ"
LowerChars == "abcdefghijklmnopqrstuvwxyz"

Char(s, i) == SubSeq(s, i, i)

IsSpace(c) == c = " "

LowerChar(c) ==
  IF \E i \in 1..Len(UpperChars) : Char(UpperChars, i) = c
  THEN Char(LowerChars, CHOOSE i \in 1..Len(UpperChars) : Char(UpperChars, i) = c)
  ELSE c

RECURSIVE StrLower(_)
StrLower(s) ==
  IF s = "" THEN "" ELSE LowerChar(Char(s, 1)) \o StrLower(SubSeq(s, 2, Len(s)))

RECURSIVE LStrip(_)
LStrip(s) ==
  IF s = "" THEN ""
  ELSE IF IsSpace(Char(s, 1)) THEN LStrip(SubSeq(s, 2, Len(s))) ELSE s

RECURSIVE RStrip(_)
RStrip(s) ==
  IF s = "" THEN ""
  ELSE IF IsSpace(Char(s, Len(s))) THEN RStrip(SubSeq(s, 1, Len(s) - 1)) ELSE s

StrStrip(s) == RStrip(LStrip(s))

\* s.replace('_', ' ').replace('-', ' ')
RECURSIVE ReplaceSeparators(_)
ReplaceSeparators(s) ==
  IF s = "" THEN ""
  ELSE (IF Char(s, 1) \in {"_", "-"} THEN " " ELSE Char(s, 1))
       \o ReplaceSeparators(SubSeq(s, 2, Len(s)))

\* ' '.join(s.split()): the words of s, one space between two of them
RECURSIVE JoinSplit(_)
JoinSplit(s) ==
  LET t == LStrip(s) IN
  IF t = "" THEN ""
  ELSE LET n == IF \E i \in 1..Len(t) : IsSpace(Char(t, i))
                THEN (CHOOSE i \in 1..Len(t) :
                        /\ IsSpace(Char(t, i))
                        /\ \A j \in 1..(i - 1) : ~IsSpace(Char(t, j))) - 1
                ELSE Len(t)
           rest == JoinSplit(SubSeq(t, n + 1, Len(t)))
       IN  IF rest = "" THEN SubSeq(t, 1, n) ELSE SubSeq(t, 1, n) \o " " \o rest

\* a in b (Python substring test)
Contains(a, b) ==
  \E i \in 0..(Len(b) - Len(a)) : SubSeq(b, i + 1, i + Len(a)) = a

_normalize_name(name) ==
  IF name = None \/ Val(name) = "" THEN ""
  ELSE JoinSplit(ReplaceSeparators(StrStrip(StrLower(Val(name)))))

\* normalized_project in completed or completed in normalized_project
NameMatches(normalized_project, completed) ==
  Contains(normalized_project, completed) \/ Contains(completed, normalized_project)

(***************************************************************************)
(* Static tables                                                           *)
(***************************************************************************)
get_42_circle_structure ==
  << [required_projects |-> <<"libft">>, min_projects |-> 1],
     [required_projects |-> <<"get_next_line", "ft_printf", "born2beroot">>,
      min_projects |-> 2],
     [required_projects |-> <<"pipex", "minitalk", "push_swap", "fdf", "fract-ol",
                              "so_long">>,
      min_projects |-> 3],
     [required_projects |-> <<"minishell", "Philosophers">>, min_projects |-> 1],
     [required_projects |-> <<"cpp-module-00", "cpp-module-01", "cpp-module-02",
                              "cpp-module-03", "cpp-module-04", "cub3d",
                              "netpractice", "minirt">>,
      min_projects |-> 4],
     [required_projects |-> <<"ft_irc", "webserv", "inception", "cpp-module-05",
                              "cpp-module-06", "cpp-module-07", "cpp-module-08",
                              "cpp-module-09">>,
      min_projects |-> 3],
     [required_projects |-> <<"ft_transcendence">>, min_projects |-> 1] >>

Est(w, h, d) == [weeks |-> w, hours |-> h, difficulty |-> d]

get_project_time_estimates ==
  ("libft" :> Est(2, 40, "medium")) @@
  ("get_next_line" :> Est(1, 25, "medium")) @@
  ("ft_printf" :> Est(2, 50, "hard")) @@
  ("born2beroot" :> Est(1, 20, "easy")) @@
  ("pipex" :> Est(2, 45, "hard")) @@
  ("minitalk" :> Est(1, 30, "medium")) @@
  ("push_swap" :> Est(3, 80, "very_hard")) @@
  ("fdf" :> Est(2, 40, "medium")) @@
  ("fract-ol" :> Est(2, 35, "medium")) @@
  ("so_long" :> Est(2, 40, "medium")) @@
  ("minishell" :> Est(4, 120, "very_hard")) @@
  ("Philosophers" :> Est(3, 90, "very_hard")) @@
  ("cpp-module-00" :> Est(1, 15, "easy")) @@
  ("cpp-module-01" :> Est(1, 20, "easy")) @@
  ("cpp-module-02" :> Est(1, 25, "medium")) @@
  ("cpp-module-03" :> Est(2, 35, "medium")) @@
  ("cpp-module-04" :> Est(2, 45, "hard")) @@
  ("cub3d" :> Est(3, 100, "very_hard")) @@
  ("netpractice" :> Est(1, 15, "easy")) @@
  ("minirt" :> Est(4, 120, "very_hard")) @@
  ("ft_irc" :> Est(4, 110, "very_hard")) @@
  ("webserv" :> Est(4, 130, "very_hard")) @@
  ("inception" :> Est(2, 40, "medium")) @@
  ("cpp-module-05" :> Est(2, 50, "hard")) @@
  ("cpp-module-06" :> Est(2, 55, "hard")) @@
  ("cpp-module-07" :> Est(2, 60, "hard")) @@
  ("cpp-module-08" :> Est(2, 70, "very_hard")) @@
  ("cpp-module-09" :> Est(2, 75, "very_hard")) @@
  ("ft_transcendence" :> Est(6, 200, "very_hard"))

(***************************************************************************)
(* Learner histories the model draws completed-project lists from          *)
(***************************************************************************)
Rec(name, slug) == [name |-> name, slug |-> slug]

\* further completed-project records: API spellings, near misses, records
\* with a missing name or slug, projects outside the catalog
ExtraRecords ==
  { Rec(Some("Libft"), Some("42cursus-libft")),
    Rec(Some("ft-printf"), Some(" FT__Printf ")),
    Rec(Some("Born2beroot"), Some("born2beroot")),
    Rec(Some("get_next_line"), Some("42cursus-get_next_line")),
    Rec(Some("Push_swap"), Some("42cursus-push_swap")),
    Rec(Some("Philosophers"), Some("42cursus-philosophers")),
    Rec(Some("miniRT"), Some("minirt")),
    Rec(Some("CPP Module 00"), Some("cpp-module-00")),
    Rec(Some("Inception-of-Things"), Some("inception-of-things")),
    Rec(Some("ft_transcendence"), Some("42cursus-ft_transcendence")),
    Rec(Some("C Piscine C 00"), Some("c-piscine-c-00")),
    Rec(Some("Exam Rank 02"), None),
    Rec(None, None) }

\* every name the model can meet: the catalog's and the records'
KnownNames ==
  {r.name : r \in ExtraRecords} \cup {r.slug : r \in ExtraRecords}
  \cup UNION { {Some(get_42_circle_structure[c].required_projects[i]) :
                  i \in 1..Len(get_42_circle_structure[c].required_projects)} :
               c \in 1..Len(get_42_circle_structure) }

\* _normalize_name of the known names, computed once
NormalizedNames == [name \in KnownNames |-> _normalize_name(name)]

Normalized(name) ==
  IF name \in KnownNames THEN NormalizedNames[name] ELSE _normalize_name(name)

\* NameMatches of the known names, computed once
KnownNormalized == {NormalizedNames[name] : name \in KnownNames}

MatchingPairs ==
  {pair \in KnownNormalized \X KnownNormalized : NameMatches(pair[1], pair[2])}

Matches(normalized_project, completed) ==
  IF normalized_project \in KnownNormalized /\ completed \in KnownNormalized
  THEN <<normalized_project, completed>> \in MatchingPairs
  ELSE NameMatches(normalized_project, completed)

(***************************************************************************)
(* Progress Matcher: _calculate_circle_progress                            *)
(***************************************************************************)
NumCircles == Len(get_42_circle_structure)

\* a faulty variant of AllCompleted: each comprehension keeps the last project
\* only, as if the set were assigned to rather than added to
AllCompletedLastOnly(completed_projects) ==
  IF completed_projects = <<>> THEN {}
  ELSE {Normalized(completed_projects[Len(completed_projects)].name),
        Normalized(completed_projects[Len(completed_projects)].slug)}

\* a faulty variant of AllCompleted: only the first record of the list counts
AllCompletedFirstOnly(completed_projects) ==
  IF completed_projects = <<>> THEN {}
  ELSE {Normalized(completed_projects[1].name), Normalized(completed_projects[1].slug)}

\* completed_names.union(completed_slugs), each name normalized
AllCompleted(completed_projects) ==
  {Normalized(completed_projects[i].name) : i \in 1..Len(completed_projects)}
  \cup {Normalized(completed_projects[i].slug) : i \in 1..Len(completed_projects)}

\* the inner loop over all_completed that sets found
ProjectFound(project, all_completed) ==
  LET normalized_project == Normalized(Some(project))
  IN  \E completed \in all_completed : Matches(normalized_project, completed)

\* completed_count of one circle
CompletedCount(circle_structure, circle_num, all_completed) ==
  LET required_projects == circle_structure[circle_num].required_projects
  IN  Cardinality({i \in 1..Len(required_projects) :
                     ProjectFound(required_projects[i], all_completed)})

Min(a, b) == IF a <= b THEN a ELSE b
Max(a, b) == IF a >= b THEN a ELSE b

\* the for loop over sorted(circle_structure.keys()), from circle_num on, with
\* the values current_circle and highest_circle_with_progress have on entry;
\* WalkStep is the body of the loop once completed_count is known
RECURSIVE CircleWalk(_, _, _, _, _)
RECURSIVE WalkStep(_, _, _, _, _, _)
\* a faulty variant of WalkStep: the quorum must be exceeded, not just met
WalkStepStrictQuorum(circle_structure, circle_num, current_circle, highest, all_completed, completed_count) ==
  IF completed_count > circle_structure[circle_num].min_projects
  THEN CircleWalk(circle_structure, circle_num + 1, circle_num + 1,
                  IF completed_count > 0 THEN circle_num ELSE highest, all_completed)
  ELSE [current_circle |-> current_circle,
        highest |-> IF completed_count > 0 THEN circle_num ELSE highest]

WalkStep(circle_structure, circle_num, current_circle, highest, all_completed, completed_count) ==
  IF completed_count >= circle_structure[circle_num].min_projects
  THEN CircleWalk(circle_structure, circle_num + 1, circle_num + 1,
                  IF completed_count > 0 THEN circle_num ELSE highest, all_completed)
  ELSE [current_circle |-> current_circle,
        highest |-> IF completed_count > 0 THEN circle_num ELSE highest]

CircleWalk(circle_structure, circle_num, current_circle, highest, all_completed) ==
  IF circle_num > Len(circle_structure)
  THEN [current_circle |-> current_circle, highest |-> highest]
  ELSE WalkStep(circle_structure, circle_num, current_circle, highest, all_completed,
                CompletedCount(circle_structure, circle_num, all_completed))

\* a faulty variant of ClampCircle: the circle is clamped to the highest circle
\* with progress, not to the one after it
ClampCircleToHighest(circle_structure, walk) ==
  Min(Min(walk.current_circle, walk.highest), Len(circle_structure))

\* current_circle = min(current_circle, highest_circle_with_progress + 1)
\* current_circle = min(current_circle, max(circle_structure.keys()))
ClampCircle(circle_structure, walk) ==
  Min(Min(walk.current_circle, walk.highest + 1), Len(circle_structure))

\* a faulty variant of MissingInCircle: the catalog id is looked up as it is
\* written, neither normalized nor matched by containment
MissingInCircleExact(required_projects, all_completed) ==
  SelectSeq(required_projects, LAMBDA project : project \notin all_completed)

\* missing_in_current: the required projects of the circle not found, in order
MissingInCircle(required_projects, all_completed) ==
  SelectSeq(required_projects, LAMBDA project : ~ProjectFound(project, all_completed))

\* a faulty variant of ProgressRecord: next_circle is current_circle + 1 even
\* in the last circle
ProgressRecordAlwaysNext(circle_structure, current_circle, highest, completed_in_current, missing_in_current) ==
  LET current_min == circle_structure[current_circle].min_projects
  IN  [ current_circle |-> current_circle,
        next_circle |-> Some(current_circle + 1),
        completed_in_current |-> completed_in_current,
        required_in_current |-> current_min,
        remaining_in_current |-> Max(0, current_min - completed_in_current),
        missing_projects |-> missing_in_current,
        is_on_track |-> completed_in_current >= current_min,
        highest_circle_reached |-> highest ]

\* the dict _calculate_circle_progress returns, from its locals
ProgressRecord(circle_structure, current_circle, highest, completed_in_current, missing_in_current) ==
  LET current_min == circle_structure[current_circle].min_projects
  IN  [ current_circle |-> current_circle,
        next_circle |-> IF current_circle < Len(circle_structure)
                        THEN Some(current_circle + 1) ELSE None,
        completed_in_current |-> completed_in_current,
        required_in_current |-> current_min,
        remaining_in_current |-> Max(0, current_min - completed_in_current),
        missing_projects |-> missing_in_current,
        is_on_track |-> completed_in_current >= current_min,
        highest_circle_reached |-> highest ]

\* the second half of _calculate_circle_progress: the loop over current_required
\* counts completed_in_current and collects missing_in_current
ProgressInCircle(circle_structure, current_circle, highest, all_completed) ==
  ProgressRecord(circle_structure, current_circle, highest,
                 CompletedCount(circle_structure, current_circle, all_completed),
                 MissingInCircle(circle_structure[current_circle].required_projects,
                                 all_completed))

\* the two clamps that follow the walk
ProgressAfterWalk(circle_structure, walk, all_completed) ==
  ProgressInCircle(circle_structure, ClampCircle(circle_structure, walk),
                   walk.highest, all_completed)

ProgressFrom(circle_structure, all_completed) ==
  ProgressAfterWalk(circle_structure,
                    CircleWalk(circle_structure, 1, 1, 1, all_completed),
                    all_completed)

CircleProgress(circle_structure, completed_projects) ==
  ProgressFrom(circle_structure, AllCompleted(completed_projects))

_calculate_circle_progress(completed_projects) ==
  CircleProgress(get_42_circle_structure, completed_projects)

(***************************************************************************)
(* _get_remaining_projects_for_current_circle                              *)
(***************************************************************************)
DefaultEstimate == Est(2, 40, "medium")

TimeEstimate(project) ==
  IF project \in DOMAIN get_project_time_estimates
  THEN get_project_time_estimates[project] ELSE DefaultEstimate

RemainingRecord(project, current_circle) ==
  LET time_estimate == TimeEstimate(project)
  IN  [ name |-> project,
        circle |-> current_circle,
        estimated_weeks |-> time_estimate.weeks,
        estimated_hours |-> time_estimate.hours,
        difficulty |-> time_estimate.difficulty ]

RECURSIVE MapRemaining(_, _)
MapRemaining(projects, current_circle) ==
  IF projects = <<>> THEN <<>>
  ELSE <<RemainingRecord(Head(projects), current_circle)>>
       \o MapRemaining(Tail(projects), current_circle)

_get_remaining_projects_for_current_circle(completed_projects, current_circle) ==
  IF current_circle = 0 \/ current_circle \notin 1..Len(get_42_circle_structure)
  THEN <<>>
  ELSE MapRemaining(
         MissingInCircle(get_42_circle_structure[current_circle].required_projects,
                         AllCompleted(completed_projects)),
         current_circle)

(***************************************************************************)
(* Deadline Resolver: _calculate_blackhole_date                            *)
(* A timestamp string is [form, t]: form "utc" is an ISO-8601 text with a  *)
(* zone ("...Z"), "naive" one without, "garbage" an unparsable text and    *)
(* "empty" the empty string.                                               *)
(***************************************************************************)
UnitsPerDay == 2

blackhole_period_days == 392

Timestamp(form, t) == [form |-> form, t |-> t]

\* datetime.fromisoformat(s.replace('Z', '+00:00')): None stands for ValueError
FromIsoFormat(s) ==
  IF s.form \in {"utc", "naive"}
  THEN Some([tz |-> s.form = "utc", t |-> s.t]) ELSE None

\* a faulty variant of DaysBetween: the difference is truncated toward zero
DaysBetweenTruncated(a, b) ==
  IF a.tz # b.tz THEN None
  ELSE Some(IF a.t >= b.t THEN (a.t - b.t) \div UnitsPerDay
            ELSE 0 - ((b.t - a.t) \div UnitsPerDay))

\* timedelta.days of (a - b), the floor of the difference in days; None stands
\* for the TypeError of subtracting a naive and an aware datetime
DaysBetween(a, b) ==
  IF a.tz # b.tz THEN None ELSE Some((a.t - b.t) \div UnitsPerDay)

\* one try block: parse text, add period_days, count the days to current_date
\* None when the block raises ValueError or TypeError
TryResolve(text, period_days, current_date) ==
  LET parsed == FromIsoFormat(text) IN
  IF parsed = None THEN None
  ELSE LET date == [tz |-> Val(parsed).tz,
                    t |-> Val(parsed).t + period_days * UnitsPerDay]
           days_until == DaysBetween(date, current_date)
       IN  IF days_until = None THEN None
           ELSE Some([ blackhole_date |-> Some(date),
                       days_until_blackhole |-> days_until,
                       is_blackholed |-> Val(days_until) <= 0 ])

\* if blackholed_at: / if begin_at:  (None and the empty string are falsy)
Truthy(text) == text # None /\ Val(text).form # "empty"

UnknownDeadline ==
  [blackhole_date |-> None, days_until_blackhole |-> None, is_blackholed |-> FALSE]

\* a faulty variant of _calculate_blackhole_date: a blackholed_at that fails
\* to parse ends the resolution, begin_at is not tried
ResolveStopsAtBadDeadline(blackholed_at, begin_at, current_date) ==
  IF Truthy(blackholed_at)
  THEN LET from_api == TryResolve(Val(blackholed_at), 0, current_date)
       IN  IF from_api # None THEN Val(from_api) ELSE UnknownDeadline
  ELSE LET from_start ==
             IF Truthy(begin_at)
             THEN TryResolve(Val(begin_at), blackhole_period_days, current_date)
             ELSE None
       IN  IF from_start # None THEN Val(from_start) ELSE UnknownDeadline

_calculate_blackhole_date(blackholed_at, begin_at, current_date) ==
  LET from_api == IF Truthy(blackholed_at)
                  THEN TryResolve(Val(blackholed_at), 0, current_date) ELSE None
      from_start == IF Truthy(begin_at)
                    THEN TryResolve(Val(begin_at), blackhole_period_days, current_date)
                    ELSE None
  IN  IF from_api # None THEN Val(from_api)
      ELSE IF from_start # None THEN Val(from_start)
      ELSE UnknownDeadline

(***************************************************************************)
(* Risk Classifier: _calculate_risk_level                                  *)
(***************************************************************************)
CriticalDays == 30
HighDays == 60
MediumDays == 90
LowOffTrackDays == 180
LowEarlyDays == 270
LowEarlyLevel == 300
LowEarlyCircle == 2

\* a faulty variant of _calculate_risk_level: the early-circle rule is tested
\* before the day tiers
RiskEarlyCircleFirst(days_until_blackhole, current_level, circle_info) ==
  IF days_until_blackhole = None THEN "UNKNOWN"
  ELSE LET safe_days == Val(days_until_blackhole)
           safe_level == IF current_level # None THEN Val(current_level) ELSE 0
           current_circle == circle_info.current_circle
           is_on_track == circle_info.is_on_track
       IN  IF safe_days <= 0 THEN "BLACK_HOLED"
           ELSE IF /\ safe_level < LowEarlyLevel
                   /\ current_circle <= LowEarlyCircle
                   /\ safe_days <= LowEarlyDays THEN "LOW"
           ELSE IF safe_days <= CriticalDays THEN "CRITICAL"
           ELSE IF safe_days <= HighDays THEN "HIGH"
           ELSE IF safe_days <= MediumDays THEN "MEDIUM"
           ELSE IF safe_days <= LowOffTrackDays /\ ~is_on_track THEN "LOW"
           ELSE "SAFE"

_calculate_risk_level(days_until_blackhole, current_level, circle_info) ==
  IF days_until_blackhole = None THEN "UNKNOWN"
  ELSE LET safe_days == Val(days_until_blackhole)
           safe_level == IF current_level # None THEN Val(current_level) ELSE 0
           current_circle == circle_info.current_circle
           is_on_track == circle_info.is_on_track
       IN  IF safe_days <= 0 THEN "BLACK_HOLED"
           ELSE IF safe_days <= CriticalDays THEN "CRITICAL"
           ELSE IF safe_days <= HighDays THEN "HIGH"
           ELSE IF safe_days <= MediumDays THEN "MEDIUM"
           ELSE IF safe_days <= LowOffTrackDays /\ ~is_on_track THEN "LOW"
           ELSE IF /\ safe_level < LowEarlyLevel
                   /\ current_circle <= LowEarlyCircle
                   /\ safe_days <= LowEarlyDays THEN "LOW"
           ELSE "SAFE"

(***************************************************************************)
(* Weekly Scheduler: _create_realistic_weekly_schedule                     *)
(***************************************************************************)
DaysPerWeek == 7

\* a faulty variant of WeeksAvailable: the weeks are rounded down
WeeksAvailableFloor(days) == days \div DaysPerWeek

\* math.ceil(days / 7)
WeeksAvailable(days) == (days + DaysPerWeek - 1) \div DaysPerWeek

\* projects[:n]
Prefix(projects, n) == SubSeq(projects, 1, Min(Max(n, 0), Len(projects)))

\* list.sort(key=estimated_weeks, reverse=True): stable, longest first
RECURSIVE InsertByWeeks(_, _)
RECURSIVE InsertByWeeksUnstable(_, _)
\* a faulty variant of InsertByWeeks: a project goes before the projects of the
\* same duration that precede it in the list
InsertByWeeksUnstable(sorted, project) ==
  IF sorted = <<>> THEN <<project>>
  ELSE IF Head(sorted).estimated_weeks > project.estimated_weeks
       THEN <<Head(sorted)>> \o InsertByWeeksUnstable(Tail(sorted), project)
       ELSE <<project>> \o sorted

InsertByWeeks(sorted, project) ==
  IF sorted = <<>> THEN <<project>>
  ELSE IF Head(sorted).estimated_weeks >= project.estimated_weeks
       THEN <<Head(sorted)>> \o InsertByWeeks(Tail(sorted), project)
       ELSE <<project>> \o sorted

RECURSIVE SortLongestFirst(_)
SortLongestFirst(projects) ==
  IF projects = <<>> THEN <<>>
  ELSE InsertByWeeks(SortLongestFirst(SubSeq(projects, 1, Len(projects) - 1)),
                     projects[Len(projects)])

\* a faulty variant of SchedulerLists: projects_to_schedule is bound to the
\* caller's list, not to a slice of it
SchedulerListsAliased(projects, required_count) ==
  [objects |-> <<projects>>, projects |-> 1, projects_to_schedule |-> 1]

\* the list objects of a call and the names bound to them: projects is the
\* caller's list, projects[:required_count] is a new list
SchedulerLists(projects, required_count) ==
  [ objects |-> <<projects, Prefix(projects, required_count)>>,
    projects |-> 1, projects_to_schedule |-> 2 ]

\* projects_to_schedule.sort(...): the list object of that name is sorted in
\* place, whatever other name is bound to it
SortedInPlace(lists) ==
  [lists EXCEPT !.objects[lists.projects_to_schedule] = SortLongestFirst(@)]

\* the caller's list when the call returns; the call writes to no project of
\* the list and to no other list of the caller
ProjectsAfterSchedule(projects, required_count) ==
  IF projects = <<>> THEN projects
  ELSE LET lists == SortedInPlace(SchedulerLists(projects, required_count))
       IN  lists.objects[lists.projects]

\* the list the placement loop goes through
ProjectsToSchedule(projects, required_count) ==
  LET lists == SortedInPlace(SchedulerLists(projects, required_count))
  IN  lists.objects[lists.projects_to_schedule]

FocusProject(project) ==
  [ name |-> project.name,
    estimated_hours |-> project.estimated_hours,
    difficulty |-> project.difficulty,
    total_weeks |-> project.estimated_weeks,
    week_in_progress |-> 1 ]

NewWeekEntry(week_num) ==
  [week |-> week_num, focus_projects |-> <<>>, weekly_goals |-> None, total_hours |-> 0]

\* the loop over week_entry["focus_projects"] that marks the first project of
\* that name as ongoing
MarkOngoing(focus_projects, project_name, week_in_progress) ==
  LET hits == {k \in 1..Len(focus_projects) : focus_projects[k].name = project_name}
  IN  IF hits = {} THEN focus_projects
      ELSE LET k == CHOOSE h \in hits : \A g \in hits : h <= g
           IN  [focus_projects EXCEPT ![k].week_in_progress = week_in_progress]

\* one pass of the loop over week_offset: find or create the week entry, then
\* add the project (first week) or mark it as ongoing (later weeks)
PlaceWeek(weekly_schedule, project, week_num, week_offset) ==
  LET hits == {k \in 1..Len(weekly_schedule) : weekly_schedule[k].week = week_num}
      schedule == IF hits = {} THEN Append(weekly_schedule, NewWeekEntry(week_num))
                  ELSE weekly_schedule
      k == IF hits = {} THEN Len(schedule)
           ELSE CHOOSE h \in hits : \A g \in hits : h <= g
      entry == schedule[k]
  IN  IF week_offset = 0
      THEN [schedule EXCEPT ![k] =
              [entry EXCEPT !.focus_projects = Append(@, FocusProject(project)),
                            !.total_hours =
                               @ + (project.estimated_hours \div project.estimated_weeks)]]
      ELSE [schedule EXCEPT ![k] =
              [entry EXCEPT !.focus_projects =
                               MarkOngoing(@, project.name, week_offset + 1)]]

\* for week_offset in range(project_weeks)
RECURSIVE PlaceProject(_, _, _, _)
PlaceProject(weekly_schedule, project, current_week, week_offset) ==
  IF week_offset >= project.estimated_weeks THEN weekly_schedule
  ELSE PlaceProject(PlaceWeek(weekly_schedule, project, current_week + week_offset,
                              week_offset),
                    project, current_week, week_offset + 1)

\* a faulty variant of SkipsProject: every project is placed, fitting or not
SkipsNothing(current_week, project_weeks, weeks_available) == FALSE

\* a faulty variant of SkipsProject: a project that ends in the last week is
\* skipped
SkipsTightFit(current_week, project_weeks, weeks_available) ==
  current_week + project_weeks > weeks_available

\* if current_week + project_weeks - 1 > weeks_available: continue
SkipsProject(current_week, project_weeks, weeks_available) ==
  current_week + project_weeks - 1 > weeks_available

\* for project in projects_to_schedule, from the i-th project on; st holds the
\* locals weekly_schedule, current_week and scheduled_projects
RECURSIVE ScheduleLoop(_, _, _, _, _)
ScheduleLoop(projects_to_schedule, i, st, weeks_available, required_count) ==
  IF i > Len(projects_to_schedule) THEN st
  ELSE LET project == projects_to_schedule[i] IN
       IF SkipsProject(st.current_week, project.estimated_weeks, weeks_available)
       THEN ScheduleLoop(projects_to_schedule, i + 1, st, weeks_available,
                         required_count)
       ELSE LET placed ==
                  [ weekly_schedule |->
                      PlaceProject(st.weekly_schedule, project, st.current_week, 0),
                    current_week |-> st.current_week + project.estimated_weeks,
                    scheduled_projects |-> Append(st.scheduled_projects, project) ]
            IN  IF \/ Len(placed.scheduled_projects) >= required_count
                   \/ placed.current_week > weeks_available
                THEN placed
                ELSE ScheduleLoop(projects_to_schedule, i + 1, placed,
                                  weeks_available, required_count)

\* the goals of one week: the projects started and the projects continued
WeeklyGoals(week_entry) ==
  LET focus_projects == week_entry.focus_projects
  IN  Some([ start |-> SelectSeq(focus_projects, LAMBDA f : f.week_in_progress = 1),
             continue |-> SelectSeq(focus_projects, LAMBDA f : f.week_in_progress > 1),
             target_hours |-> week_entry.total_hours ])

FormatSchedule(weekly_schedule) ==
  [k \in 1..Len(weekly_schedule) |->
     [weekly_schedule[k] EXCEPT !.weekly_goals = WeeklyGoals(weekly_schedule[k])]]

\* the locals of the placement loop when it ends
ScheduleRun(projects, days_remaining, required_count) ==
  ScheduleLoop(ProjectsToSchedule(projects, required_count), 1,
               [weekly_schedule |-> <<>>, current_week |-> 1,
                scheduled_projects |-> <<>>],
               WeeksAvailable(days_remaining), required_count)

_create_realistic_weekly_schedule(projects, days_remaining, required_count) ==
  IF projects = <<>> THEN <<>>
  ELSE FormatSchedule(
         ScheduleRun(projects, days_remaining, required_count).weekly_schedule)

(***************************************************************************)
(* Plan Assembler: generate_escape_plan, after the status is computed      *)
(***************************************************************************)
PlanMaxDays == 1000
ComplexCircle == 4

RECURSIVE SumWeeks(_)
SumWeeks(projects) ==
  IF projects = <<>> THEN 0
  ELSE Head(projects).estimated_weeks + SumWeeks(Tail(projects))

RECURSIVE SumHours(_)
SumHours(projects) ==
  IF projects = <<>> THEN 0
  ELSE Head(projects).estimated_hours + SumHours(Tail(projects))

\* the recommendation groups _generate_realistic_recommendations appends, by
\* the condition that selects each (the wording is not modelled)
_generate_realistic_recommendations(status, current_date, timeline_feasible) ==
  <<IF timeline_feasible THEN "TIMELINE_FEASIBLE" ELSE "TIMELINE_CRITICAL">>
  \o <<CASE status.risk_level = "CRITICAL" -> "MAXIMUM_EFFORT"
         [] status.risk_level = "HIGH" -> "HIGH_INTENSITY"
         [] status.risk_level = "MEDIUM" -> "CONSISTENT_EFFORT"
         [] OTHER -> "STEADY_PACE">>
  \o <<"CIRCLE_PROGRESS">>
  \o (IF status.circle_info.current_circle >= ComplexCircle
      THEN <<"COMPLEX_PROJECTS">> ELSE <<>>)
  \o <<"TIME_MANAGEMENT">>
  \o (IF /\ Truthy(status.begin_at)
         /\ FromIsoFormat(Val(status.begin_at)) # None
         /\ DaysBetween(current_date, Val(FromIsoFormat(Val(status.begin_at)))) # None
      THEN <<"STARTED">> ELSE <<>>)

EmergencyPlan ==
  [message |-> "EMERGENCY", recommendations |-> <<"CONTACT_STAFF">>]

SafePlan ==
  [message |-> "SAFE_FOR_NOW", recommendations |-> <<"STEADY_PROGRESS">>]

\* safe_projects_needed
SafeProjectsNeeded(circle_info) == Max(1, circle_info.remaining_in_current)

\* a faulty variant of TimelineFeasible: the weeks of every remaining project
\* are summed, not those of the first projects_needed
TimelineFeasibleAllRemaining(remaining_projects, projects_needed, weeks_available) ==
  SumWeeks(remaining_projects) <= weeks_available

\* total_weeks_needed <= weeks_available
TimelineFeasible(remaining_projects, projects_needed, weeks_available) ==
  SumWeeks(Prefix(remaining_projects, projects_needed)) <= weeks_available

RECURSIVE ProjectNames(_)
ProjectNames(projects) ==
  IF projects = <<>> THEN <<>>
  ELSE <<Head(projects).name>> \o ProjectNames(Tail(projects))

FullPlan(status, current_date) ==
  LET days_remaining == Val(status.days_until_blackhole)
      circle_info == status.circle_info
      remaining_projects == status.remaining_projects
      projects_needed == circle_info.remaining_in_current
      safe_days_remaining == Max(1, days_remaining)
      safe_projects_needed == SafeProjectsNeeded(circle_info)
      weeks_available == WeeksAvailable(safe_days_remaining)
      timeline_feasible ==
        TimelineFeasible(remaining_projects, projects_needed, weeks_available)
  IN  [ start_date |-> status.begin_at,
        blackhole_date |-> status.blackhole_date,
        days_remaining |-> days_remaining,
        weeks_available |-> weeks_available,
        current_circle |-> circle_info.current_circle,
        next_circle |-> circle_info.next_circle,
        projects_completed_current |-> circle_info.completed_in_current,
        projects_required_current |-> circle_info.required_in_current,
        projects_remaining_current |-> projects_needed,
        total_weeks_needed |-> SumWeeks(Prefix(remaining_projects, projects_needed)),
        total_hours_needed |-> SumHours(Prefix(remaining_projects, projects_needed)),
        timeline_feasible |-> timeline_feasible,
        required_projects |-> safe_projects_needed,
        weekly_schedule |->
          _create_realistic_weekly_schedule(remaining_projects, safe_days_remaining,
                                            safe_projects_needed),
        priority_projects |->
          ProjectNames(ProjectsAfterSchedule(remaining_projects, safe_projects_needed)),
        missing_projects |-> circle_info.missing_projects,
        recommendations |->
          _generate_realistic_recommendations(status, current_date, timeline_feasible) ]

\* a faulty variant of PlanBranch: is_blackholed is not looked at
PlanBranchIgnoresPast(status) ==
  IF \/ status.days_until_blackhole = None
     \/ Val(status.days_until_blackhole) > PlanMaxDays THEN "safe"
  ELSE "full"

\* which of the three returns of generate_escape_plan is taken
PlanBranch(status) ==
  IF status.is_blackholed THEN "emergency"
  ELSE IF \/ status.days_until_blackhole = None
          \/ Val(status.days_until_blackhole) > PlanMaxDays THEN "safe"
  ELSE "full"

\* the arguments of the call of _create_realistic_weekly_schedule, None when
\* generate_escape_plan returns before it
SchedulerCall(status) ==
  IF PlanBranch(status) = "full"
  THEN Some([ projects |-> status.remaining_projects,
              days_remaining |-> Max(1, Val(status.days_until_blackhole)),
              required_count |-> SafeProjectsNeeded(status.circle_info) ])
  ELSE None

EscapePlan(status, current_date) ==
  CASE PlanBranch(status) = "emergency" -> EmergencyPlan
    [] PlanBranch(status) = "safe" -> SafePlan
    [] OTHER -> FullPlan(status, current_date)

\* the status dict calculate_blackhole_status returns for one main cursus and
\* one list of completed projects, from the deadline and the circle_info
StatusFrom(blackholed_at, begin_at, level, completed_projects, deadline, circle_info) ==
  [ level |-> level,
    begin_at |-> begin_at,
    blackholed_at |-> blackholed_at,
    blackhole_date |-> deadline.blackhole_date,
    days_until_blackhole |-> deadline.days_until_blackhole,
    is_blackholed |-> deadline.is_blackholed,
    total_completed |-> Len(completed_projects),
    circle_info |-> circle_info,
    remaining_projects |->
      _get_remaining_projects_for_current_circle(completed_projects,
                                                 circle_info.current_circle),
    risk_level |->
      _calculate_risk_level(deadline.days_until_blackhole, level, circle_info) ]

StatusOf(blackholed_at, begin_at, current_date, level, completed_projects) ==
  StatusFrom(blackholed_at, begin_at, level, completed_projects,
             _calculate_blackhole_date(blackholed_at, begin_at, current_date),
             _calculate_circle_progress(completed_projects))

\* the first min_projects gating projects of a circle, as the API names them
QuorumRecords(circle_num) ==
  LET c == get_42_circle_structure[circle_num]
  IN  [i \in 1..c.min_projects |->
         Rec(Some(c.required_projects[i]), Some(c.required_projects[i]))]

\* a learner who cleared circles 1..k with exactly the quorum of each
RECURSIVE BaseHistory(_)
BaseHistory(k) == IF k = 0 THEN <<>> ELSE BaseHistory(k - 1) \o QuorumRecords(k)

(***************************************************************************)
(* State                                                                   *)
(***************************************************************************)
VARIABLES
  pc,                    \* where the run stands
  blackholed_at,         \* main_cursus.get('blackholed_at')
  begin_at,              \* main_cursus.get('begin_at')
  current_date,          \* datetime.now().astimezone()
  level,                 \* main_cursus.get('level')
  completed_projects,    \* the list _get_completed_projects returns
  blackhole_date,        \* status["blackhole_date"]
  days_until_blackhole,  \* status["days_until_blackhole"]
  is_blackholed,         \* status["is_blackholed"]
  circle_info,           \* status["circle_info"]
  remaining_projects,    \* status["remaining_projects"]
  risk_level,            \* status["risk_level"]
  schedule_call,         \* the arguments _create_realistic_weekly_schedule got
  weekly_schedule,       \* what it returned
  escape_plan,           \* result["escape_plan"]
  circle_structure,      \* what get_42_circle_structure returns
  responses,             \* what the 42 API answers to each request
  page,                  \* the page get_all_paginated_data asks for
  user_projects,         \* all_data of the request for the projects
  result,                \* what generate_escape_plan or the handler got
  http_status            \* the status code of the HTTP answer

inputVars == <<blackholed_at, begin_at, current_date, level, completed_projects>>
deadlineVars == <<blackhole_date, days_until_blackhole, is_blackholed>>
progressVars == <<circle_info, remaining_projects>>
planVars == <<schedule_call, weekly_schedule, escape_plan>>
apiVars == <<circle_structure, responses, page, user_projects, result, http_status>>
vars == <<pc, inputVars, deadlineVars, progressVars, risk_level, planVars, apiVars>>

\* None for every variable outside the given set of names
Unset(used) ==
  /\ IF "blackholed_at" \in used THEN TRUE ELSE blackholed_at = None
  /\ IF "begin_at" \in used THEN TRUE ELSE begin_at = None
  /\ IF "current_date" \in used THEN TRUE ELSE current_date = None
  /\ IF "level" \in used THEN TRUE ELSE level = None
  /\ IF "completed_projects" \in used THEN TRUE ELSE completed_projects = None
  /\ IF "blackhole_date" \in used THEN TRUE ELSE blackhole_date = None
  /\ IF "days_until_blackhole" \in used THEN TRUE ELSE days_until_blackhole = None
  /\ IF "is_blackholed" \in used THEN TRUE ELSE is_blackholed = None
  /\ IF "circle_info" \in used THEN TRUE ELSE circle_info = None
  /\ IF "remaining_projects" \in used THEN TRUE ELSE remaining_projects = None
  /\ IF "risk_level" \in used THEN TRUE ELSE risk_level = None
  /\ IF "schedule_call" \in used THEN TRUE ELSE schedule_call = None
  /\ IF "weekly_schedule" \in used THEN TRUE ELSE weekly_schedule = None
  /\ IF "escape_plan" \in used THEN TRUE ELSE escape_plan = None
  /\ IF "circle_structure" \in used THEN TRUE ELSE circle_structure = None
  /\ IF "responses" \in used THEN TRUE ELSE responses = None
  /\ IF "page" \in used THEN TRUE ELSE page = None
  /\ IF "user_projects" \in used THEN TRUE ELSE user_projects = None
  /\ IF "result" \in used THEN TRUE ELSE result = None
  /\ IF "http_status" \in used THEN TRUE ELSE http_status = None

(***************************************************************************)
(* SpecDate: _calculate_blackhole_date on every pair of timestamps         *)
(***************************************************************************)
MaxSpan == 5

\* instants within MaxSpan units of the epoch, the values of current_date
NearEpoch == (0 - MaxSpan)..MaxSpan

\* start instants whose deadline falls near the epoch
NearStart == {t - blackhole_period_days * UnitsPerDay : t \in NearEpoch}

TimestampTexts(instants) ==
  {None, Some(Timestamp("empty", 0)), Some(Timestamp("garbage", 0))}
  \cup {Some(Timestamp("utc", t)) : t \in instants}
  \cup {Some(Timestamp("naive", t)) : t \in instants}

InitDate ==
  /\ pc = "resolve"
  /\ blackholed_at \in TimestampTexts(NearEpoch)
  /\ begin_at \in TimestampTexts(NearStart \cup {0})
  /\ current_date \in {[tz |-> TRUE, t |-> t] : t \in 0..(UnitsPerDay - 1)}
  /\ Unset({"blackholed_at", "begin_at", "current_date"})

ResolveDeadline ==
  /\ pc = "resolve"
  /\ \E r \in {_calculate_blackhole_date(blackholed_at, begin_at, current_date)} :
       /\ blackhole_date' = r.blackhole_date
       /\ days_until_blackhole' = r.days_until_blackhole
       /\ is_blackholed' = r.is_blackholed
  /\ pc' = "resolved"
  /\ UNCHANGED <<inputVars, progressVars, risk_level, planVars, apiVars>>

NextDate == ResolveDeadline

SpecDate == InitDate /\ [][NextDate]_vars

\* C2: _calculate_blackhole_date resolves the deadline by the first applicable
\* rule: blackholed_at when it is present and parses, whatever begin_at is; else
\* begin_at + 392 days when begin_at is present and parses; else no instant, no
\* day count and is_blackholed = FALSE. When a deadline is resolved,
\* days_until_blackhole is the floor of (deadline - now) in days and
\* is_blackholed is true iff days_until_blackhole <= 0.
\* (A text parses when it is an ISO-8601 text with a zone: the try block that
\* parses a text without a zone raises TypeError at the subtraction, which the
\* code reports as a parsing error like a ValueError.)
C2_DeadlineResolution ==
  pc = "resolved" =>
    LET Parses(text) == text # None /\ Val(text).form = "utc"
        deadline == IF Parses(blackholed_at) THEN Some(Val(blackholed_at).t)
                    ELSE IF Parses(begin_at)
                         THEN Some(Val(begin_at).t + 392 * UnitsPerDay)
                    ELSE None
    IN  IF deadline = None
        THEN /\ blackhole_date = None
             /\ days_until_blackhole = None
             /\ is_blackholed = FALSE
        ELSE /\ blackhole_date = Some([tz |-> TRUE, t |-> Val(deadline)])
             /\ days_until_blackhole # None
             /\ Val(days_until_blackhole) * UnitsPerDay
                  <= Val(deadline) - current_date.t
             /\ Val(deadline) - current_date.t
                  < (Val(days_until_blackhole) + 1) * UnitsPerDay
             /\ is_blackholed <=> (Val(days_until_blackhole) <= 0)

\* an explicit deadline that passed less than a day ago wins over a start date
\* whose deadline is still ahead: the day count is -1
C2_ExplicitDeadlineJustPassed ==
  /\ pc = "resolved"
  /\ blackholed_at # None /\ Val(blackholed_at).form = "utc"
  /\ begin_at # None /\ Val(begin_at).form = "utc"
  /\ Val(begin_at).t + 392 * UnitsPerDay > current_date.t
  /\ Val(blackholed_at).t - current_date.t = 0 - 1
  /\ blackhole_date = Some([tz |-> TRUE, t |-> Val(blackholed_at).t])
  /\ days_until_blackhole = Some(0 - 1)
  /\ is_blackholed = TRUE

(***************************************************************************)
(* SpecRisk: _calculate_risk_level on every combination of its arguments   *)
(***************************************************************************)
MaxRiskDays == 272

RiskLevels == {None, Some(0), Some(299), Some(300), Some(1000)}

InitRisk ==
  /\ pc = "classify"
  /\ days_until_blackhole \in {None} \cup {Some(d) : d \in (0 - 1)..MaxRiskDays}
  /\ level \in RiskLevels
  /\ circle_info \in [current_circle : 1..NumCircles, is_on_track : BOOLEAN]
  /\ Unset({"days_until_blackhole", "level", "circle_info"})

ClassifyRisk ==
  /\ pc = "classify"
  /\ risk_level' = _calculate_risk_level(days_until_blackhole, level, circle_info)
  /\ pc' = "classified"
  /\ UNCHANGED <<inputVars, deadlineVars, progressVars, planVars, apiVars>>

NextRisk == ClassifyRisk

SpecRisk == InitRisk /\ [][NextRisk]_vars

\* C1: _calculate_risk_level returns the result of the first matching rule in
\* the order: no day count -> UNKNOWN; days <= 0 -> BLACK_HOLED; days <= 30 ->
\* CRITICAL; days <= 60 -> HIGH; days <= 90 -> MEDIUM; days <= 180 and not on
\* track -> LOW; current_circle <= 2 and level < 3.0 and days <= 270 -> LOW;
\* otherwise SAFE. Any day count in 31..60 gives HIGH whatever the rest is.
\* (A missing level counts as 0.)
C1_RiskRuleOrder ==
  pc = "classified" =>
    LET days == days_until_blackhole
        lvl == IF level = None THEN 0 ELSE Val(level)
        on_track == circle_info.is_on_track
        circle == circle_info.current_circle
    IN  /\ risk_level =
             IF days = None THEN "UNKNOWN"
             ELSE IF Val(days) <= 0 THEN "BLACK_HOLED"
             ELSE IF Val(days) <= 30 THEN "CRITICAL"
             ELSE IF Val(days) <= 60 THEN "HIGH"
             ELSE IF Val(days) <= 90 THEN "MEDIUM"
             ELSE IF Val(days) <= 180 /\ ~on_track THEN "LOW"
             ELSE IF circle <= 2 /\ lvl < 300 /\ Val(days) <= 270 THEN "LOW"
             ELSE "SAFE"
        /\ (days # None /\ Val(days) \in 31..60) => risk_level = "HIGH"

\* a learner 45 days out, on track, in circle 5 at level 10 is HIGH
C1_HighDespiteProgress ==
  /\ pc = "classified"
  /\ days_until_blackhole = Some(45)
  /\ level = Some(1000)
  /\ circle_info = [current_circle |-> 5, is_on_track |-> TRUE]
  /\ risk_level = "HIGH"

(***************************************************************************)
(* SpecProgress: a learner completes projects; the progress is recomputed  *)
(* after each                                                              *)
(***************************************************************************)
MaxAdded == 2

InitProgress ==
  /\ pc = "progress"
  /\ \E k \in 0..NumCircles : completed_projects = BaseHistory(k)
  /\ circle_info = _calculate_circle_progress(completed_projects)
  /\ remaining_projects =
       _get_remaining_projects_for_current_circle(completed_projects,
                                                  circle_info.current_circle)
  /\ Unset({"completed_projects", "circle_info", "remaining_projects"})

AddCompleted ==
  /\ pc = "progress"
  /\ Cardinality({i \in 1..Len(completed_projects) :
                    completed_projects[i] \in ExtraRecords}) < MaxAdded
  /\ \E r \in ExtraRecords :
       /\ completed_projects' = Append(completed_projects, r)
       /\ circle_info' = _calculate_circle_progress(completed_projects')
       /\ remaining_projects' =
            _get_remaining_projects_for_current_circle(completed_projects',
                                                       circle_info'.current_circle)
  /\ UNCHANGED <<pc, blackholed_at, begin_at, current_date, level, deadlineVars,
                 risk_level, planVars, apiVars>>

NextProgress == AddCompleted

SpecProgress == InitProgress /\ [][NextProgress]_vars

\* the number of gating projects of circle c the completed projects match
MatchedCount(c) ==
  CompletedCount(get_42_circle_structure, c, AllCompleted(completed_projects))

\* circle c has its quorum of matched gating projects
Cleared(c) == MatchedCount(c) >= get_42_circle_structure[c].min_projects

\* C3, as stated: current_circle is the lowest circle whose count of matched
\* gating projects is below its quorum: every circle below current_circle has
\* its quorum and current_circle itself has not.
C3_LowestUnclearedStage ==
  pc = "progress" =>
    /\ \A c \in 1..(circle_info.current_circle - 1) : Cleared(c)
    /\ ~Cleared(circle_info.current_circle)

\* C3, amended: current_circle is the lowest circle whose count of matched
\* gating projects is below its quorum, or the last circle when every circle
\* has its quorum; every circle below current_circle has its quorum.
C3_LowestUnclearedOrLast ==
  pc = "progress" =>
    /\ circle_info.current_circle \in 1..NumCircles
    /\ \A c \in 1..(circle_info.current_circle - 1) : Cleared(c)
    /\ IF \A c \in 1..NumCircles : Cleared(c)
       THEN circle_info.current_circle = NumCircles
       ELSE ~Cleared(circle_info.current_circle)

\* a learner stopped in circle 3 with one of its gating projects matched
C3_PartlyDoneStage ==
  /\ pc = "progress"
  /\ circle_info.current_circle = 3
  /\ MatchedCount(3) = 1
  /\ Cleared(1) /\ Cleared(2)

\* C4: adding completed projects never lowers current_circle, nor
\* highest_circle_reached.
C4_StageNeverRegresses ==
  [][ /\ circle_info'.current_circle >= circle_info.current_circle
      /\ circle_info'.highest_circle_reached >= circle_info.highest_circle_reached
    ]_vars

\* a learner with no project who completed one is in circle 2
C4_CompletionAdvancesStage ==
  /\ pc = "progress"
  /\ Len(completed_projects) = 1
  /\ completed_projects[1] \in ExtraRecords
  /\ circle_info.current_circle = 2
  /\ circle_info.highest_circle_reached = 1

\* C5: missing_projects holds only gating ids of current_circle, in catalog
\* order and without duplicates; none of them matches a completed name or slug;
\* completed_in_current + |missing_projects| is the size of the gating set of
\* current_circle; is_on_track is true iff completed_in_current >=
\* required_in_current.
C5_MissingProjects ==
  pc = "progress" =>
    LET required ==
          get_42_circle_structure[circle_info.current_circle].required_projects
        missing == circle_info.missing_projects
        ids == {missing[i] : i \in 1..Len(missing)}
        names == {completed_projects[j].name : j \in 1..Len(completed_projects)}
                 \cup {completed_projects[j].slug : j \in 1..Len(completed_projects)}
    IN  /\ ids \subseteq {required[i] : i \in 1..Len(required)}
        /\ Cardinality(ids) = Len(missing)
        /\ missing = SelectSeq(required, LAMBDA project : project \in ids)
        /\ \A id \in ids : \A name \in names :
             ~Matches(Normalized(Some(id)), Normalized(name))
        /\ circle_info.completed_in_current + Len(missing) = Len(required)
        /\ circle_info.is_on_track
             <=> (circle_info.completed_in_current >= circle_info.required_in_current)

\* a learner in circle 2 with one gating project matched and two missing
C5_OneOfThreeDone ==
  /\ pc = "progress"
  /\ circle_info.current_circle = 2
  /\ circle_info.completed_in_current = 1
  /\ Len(circle_info.missing_projects) = 2
  /\ circle_info.is_on_track = FALSE
  /\ Len(completed_projects) = 2

(***************************************************************************)
(* SpecSchedule: _create_realistic_weekly_schedule on every list of        *)
(* remaining projects of a circle                                          *)
(***************************************************************************)
MaxWeeks == 12
MaxRequired == 4

\* the subsequences of a list, in the order of the list
RECURSIVE SubLists(_)
SubLists(list) ==
  IF list = <<>> THEN {<<>>}
  ELSE LET rest == SubLists(Tail(list))
       IN  rest \cup {<<Head(list)>> \o l : l \in rest}

\* every value _get_remaining_projects_for_current_circle can return
RemainingLists ==
  UNION { {MapRemaining(l, c) :
             l \in SubLists(get_42_circle_structure[c].required_projects)} :
          c \in 1..NumCircles }

\* the first and the last day of each of the weeks 1..MaxWeeks
ScheduleDays ==
  UNION { {DaysPerWeek * w - (DaysPerWeek - 1), DaysPerWeek * w} : w \in 1..MaxWeeks }

InitSchedule ==
  /\ pc = "schedule"
  /\ \E projects \in RemainingLists, days \in ScheduleDays, n \in 1..MaxRequired :
       schedule_call = Some([projects |-> projects, days_remaining |-> days,
                             required_count |-> n])
  /\ Unset({"schedule_call"})

RunScheduler ==
  /\ pc = "schedule"
  /\ weekly_schedule' =
       _create_realistic_weekly_schedule(Val(schedule_call).projects,
                                         Val(schedule_call).days_remaining,
                                         Val(schedule_call).required_count)
  /\ pc' = "scheduled"
  /\ UNCHANGED <<inputVars, deadlineVars, progressVars, risk_level, schedule_call,
                 escape_plan, apiVars>>

NextSchedule == RunScheduler

SpecSchedule == InitSchedule /\ [][NextSchedule]_vars

\* the projects the buckets list, in the order of the weeks
RECURSIVE PlacedProjects(_)
PlacedProjects(schedule) ==
  IF schedule = <<>> THEN <<>>
  ELSE Head(schedule).focus_projects \o PlacedProjects(Tail(schedule))

\* the sum of total_hours over the buckets from..to
RECURSIVE BucketHours(_, _, _)
BucketHours(schedule, from, to) ==
  IF from > to THEN 0
  ELSE schedule[from].total_hours + BucketHours(schedule, from + 1, to)

\* the first required_count projects of the call
SelectedProjects ==
  SubSeq(Val(schedule_call).projects, 1,
         Min(Val(schedule_call).required_count, Len(Val(schedule_call).projects)))

\* C7: the week numbers of the buckets are 1, 2, ..., K in this order, K <=
\* weeks_available = ceil(days_remaining / 7), and a placed project of d weeks
\* has the d consecutive weeks [s, s+d-1] to itself, s+d-1 <= weeks_available.
C7_ContiguousWeeks ==
  pc = "scheduled" =>
    LET days == Val(schedule_call).days_remaining
        K == Len(weekly_schedule)
    IN  /\ \A k \in 1..K : weekly_schedule[k].week = k
        /\ 7 * (K - 1) < days
        /\ \A s \in 1..K :
             \A i \in 1..Len(weekly_schedule[s].focus_projects) :
               LET d == weekly_schedule[s].focus_projects[i].total_weeks
               IN  /\ d >= 1
                   /\ 7 * (s + d - 2) < days
                   /\ s + d - 1 <= K
                   /\ Len(weekly_schedule[s].focus_projects) = 1
                   /\ \A j \in (s + 1)..(s + d - 1) :
                        weekly_schedule[j].focus_projects = <<>>

\* a schedule that fills the 4 weeks available: 3 weeks of one project, then
\* a project of one week
C7_FourWeeksFilled ==
  /\ pc = "scheduled"
  /\ Val(schedule_call).days_remaining = 28
  /\ Len(weekly_schedule) = 4
  /\ Len(weekly_schedule[1].focus_projects) = 1
  /\ weekly_schedule[1].focus_projects[1].total_weeks = 3
  /\ Len(weekly_schedule[4].focus_projects) = 1

\* C8: the hours of a placed project summed over the buckets of its run are its
\* estimated_hours, so the total_hours of all buckets sum to the
\* estimated_hours of the placed projects.
C8_HoursConserved ==
  pc = "scheduled" =>
    /\ \A s \in 1..Len(weekly_schedule) :
         \A i \in 1..Len(weekly_schedule[s].focus_projects) :
           LET project == weekly_schedule[s].focus_projects[i]
           IN  (/\ Len(weekly_schedule[s].focus_projects) = 1
                /\ s + project.total_weeks - 1 <= Len(weekly_schedule))
               => BucketHours(weekly_schedule, s, s + project.total_weeks - 1)
                    = project.estimated_hours
    /\ BucketHours(weekly_schedule, 1, Len(weekly_schedule))
         = SumHours(PlacedProjects(weekly_schedule))

\* C9: when the weeks of the selected projects sum to more than
\* weeks_available, a selected project is left out of the schedule; when they
\* sum to at most weeks_available, every selected project is placed, back to
\* back from week 1.
C9_DropOrPlaceAll ==
  pc = "scheduled" =>
    LET days == Val(schedule_call).days_remaining
        total == SumWeeks(SelectedProjects)
        placed == PlacedProjects(weekly_schedule)
        placed_names == {placed[i].name : i \in 1..Len(placed)}
        K == Len(weekly_schedule)
    IN  IF 7 * (total - 1) >= days
        THEN \E i \in 1..Len(SelectedProjects) :
               SelectedProjects[i].name \notin placed_names
        ELSE /\ \A i \in 1..Len(SelectedProjects) :
                  SelectedProjects[i].name \in placed_names
             /\ Len(placed) = Len(SelectedProjects)
             /\ K = total
             /\ \A s \in 1..K :
                  /\ Len(weekly_schedule[s].focus_projects) <= 1
                  /\ weekly_schedule[s].focus_projects # <<>> =>
                       \A j \in (s + 1)..
                                (s + weekly_schedule[s].focus_projects[1].total_weeks - 1) :
                         j <= K /\ weekly_schedule[j].focus_projects = <<>>

\* three selected projects of 6 weeks in all with 4 weeks available: two are
\* placed, one is left out
C9_OneProjectDropped ==
  /\ pc = "scheduled"
  /\ Val(schedule_call).days_remaining = 28
  /\ Val(schedule_call).required_count = 3
  /\ Len(SelectedProjects) = 3
  /\ SumWeeks(SelectedProjects) = 6
  /\ Len(PlacedProjects(weekly_schedule)) = 2

(***************************************************************************)
(* Spec: generate_escape_plan for one learner: calculate_blackhole_status, *)
(* then the plan                                                           *)
(***************************************************************************)
\* day counts on both sides of every threshold of the engine
DayPoints ==
  {0 - 1, 0, 1, 10, 30, 31, 45, 60, 61, 90, 91, 180, 181, 270, 271, 1000, 1001}
  \cup {DaysPerWeek * w : w \in 1..MaxWeeks}

StartPoint == 100

InitPlan ==
  /\ pc = "start"
  /\ current_date = [tz |-> TRUE, t |-> 0]
  /\ blackholed_at \in
       {None, Some(Timestamp("garbage", 0))}
       \cup {Some(Timestamp("utc", d * UnitsPerDay)) : d \in DayPoints}
  /\ begin_at \in
       {None, Some(Timestamp("garbage", 0)),
        Some(Timestamp("utc", (StartPoint - blackhole_period_days) * UnitsPerDay))}
  /\ level \in {Some(0), Some(300)}
  /\ \E k \in 0..NumCircles :
       completed_projects \in {BaseHistory(k)}
                              \cup {Append(BaseHistory(k), r) : r \in ExtraRecords}
  /\ Unset({"blackholed_at", "begin_at", "current_date", "level", "completed_projects"})

\* the status the variables hold
Status ==
  [ level |-> level, begin_at |-> begin_at, blackholed_at |-> blackholed_at,
    blackhole_date |-> blackhole_date,
    days_until_blackhole |-> days_until_blackhole,
    is_blackholed |-> is_blackholed,
    total_completed |-> Len(completed_projects),
    circle_info |-> circle_info,
    remaining_projects |-> remaining_projects,
    risk_level |-> risk_level ]

CalculateStatus ==
  /\ pc = "start"
  /\ \E st \in {StatusOf(blackholed_at, begin_at, current_date, level,
                         completed_projects)} :
       /\ blackhole_date' = st.blackhole_date
       /\ days_until_blackhole' = st.days_until_blackhole
       /\ is_blackholed' = st.is_blackholed
       /\ circle_info' = st.circle_info
       /\ remaining_projects' = st.remaining_projects
       /\ risk_level' = st.risk_level
  /\ pc' = "status"
  /\ UNCHANGED <<inputVars, planVars, apiVars>>

GeneratePlan ==
  /\ pc = "status"
  /\ \E status \in {Status} :
       /\ schedule_call' = SchedulerCall(status)
       /\ escape_plan' = EscapePlan(status, current_date)
       /\ weekly_schedule' =
            IF PlanBranch(status) = "full" THEN escape_plan'.weekly_schedule ELSE None
       /\ remaining_projects' =
            IF PlanBranch(status) = "full"
            THEN ProjectsAfterSchedule(status.remaining_projects,
                                       SafeProjectsNeeded(status.circle_info))
            ELSE status.remaining_projects
  /\ pc' = "done"
  /\ UNCHANGED <<inputVars, deadlineVars, circle_info, risk_level, apiVars>>

Next == CalculateStatus \/ GeneratePlan

Spec == InitPlan /\ [][Next]_vars

\* C6: in a full plan, timeline_feasible is true iff the estimated_weeks of the
\* first required_count remaining projects, the ones handed to the scheduler,
\* sum to at most weeks_available = ceil(days_remaining / 7); the sum the plan
\* reports is the sum over that prefix, whatever the scheduler placed.
C6_FeasibleFlag ==
  (pc = "done" /\ schedule_call # None) =>
    LET call == Val(schedule_call)
        selected == SubSeq(call.projects, 1,
                           Min(call.required_count, Len(call.projects)))
        W == escape_plan.weeks_available
    IN  /\ call.projects = remaining_projects
        /\ call.days_remaining = Val(days_until_blackhole)
        /\ 7 * (W - 1) < call.days_remaining
        /\ call.days_remaining <= 7 * W
        /\ escape_plan.total_weeks_needed = SumWeeks(selected)
        /\ escape_plan.timeline_feasible <=> (SumWeeks(selected) <= W)

\* a plan flagged infeasible although the scheduler placed a project, for a
\* learner with more remaining projects than required
C6_InfeasibleButScheduled ==
  /\ pc = "done"
  /\ schedule_call # None
  /\ escape_plan.timeline_feasible = FALSE
  /\ Len(weekly_schedule) > 0
  /\ Len(remaining_projects) > Val(schedule_call).required_count

\* C10: generate_escape_plan takes one branch, the first that applies: the
\* emergency plan when is_blackholed, without schedule or feasibility flag; the
\* safe plan when days_until_blackhole is null or above 1000, without schedule;
\* else, with 1 <= days <= 1000, the full plan with weeks_available,
\* weekly_schedule, timeline_feasible and recommendations. The scheduler is
\* never run on a null or non-positive day count.
C10_BranchSelection ==
  pc = "done" =>
    /\ IF is_blackholed
       THEN /\ DOMAIN escape_plan = {"message", "recommendations"}
            /\ escape_plan.message = "EMERGENCY"
            /\ schedule_call = None
            /\ weekly_schedule = None
       ELSE IF days_until_blackhole = None \/ Val(days_until_blackhole) > 1000
       THEN /\ DOMAIN escape_plan = {"message", "recommendations"}
            /\ escape_plan.message = "SAFE_FOR_NOW"
            /\ schedule_call = None
            /\ weekly_schedule = None
       ELSE /\ Val(days_until_blackhole) \in 1..1000
            /\ {"weeks_available", "weekly_schedule", "timeline_feasible",
                "recommendations"} \subseteq DOMAIN escape_plan
            /\ schedule_call # None
            /\ weekly_schedule = escape_plan.weekly_schedule
    /\ schedule_call # None =>
         /\ days_until_blackhole # None
         /\ Val(days_until_blackhole) >= 1
         /\ Val(schedule_call).days_remaining = Val(days_until_blackhole)

\* a deadline exactly 1000 days out still gets the full plan
C10_FullPlanAtThousandDays ==
  /\ pc = "done"
  /\ is_blackholed = FALSE
  /\ days_until_blackhole = Some(1000)
  /\ schedule_call # None
  /\ "weekly_schedule" \in DOMAIN escape_plan
\* C20: 1 <= current_circle <= min(highest_circle_reached + 1, last circle),
\* highest_circle_reached <= current_circle, and next_circle is current_circle
\* + 1 below the last circle and null in the last circle.
C20_CircleBounds ==
  pc = "progress" =>
    /\ 1 <= circle_info.current_circle
    /\ circle_info.current_circle <= circle_info.highest_circle_reached + 1
    /\ circle_info.current_circle <= Len(get_42_circle_structure)
    /\ circle_info.highest_circle_reached <= circle_info.current_circle
    /\ circle_info.next_circle =
         IF circle_info.current_circle < Len(get_42_circle_structure)
         THEN Some(circle_info.current_circle + 1) ELSE None

\* a learner in the last circle, with progress in it: there is no next circle
C20_LastCircle ==
  /\ pc = "progress"
  /\ circle_info.current_circle = Len(get_42_circle_structure)
  /\ circle_info.highest_circle_reached = circle_info.current_circle
  /\ circle_info.next_circle = None

\* the week whose bucket lists the project of that name, 0 when none does
StartWeek(name) ==
  LET weeks == {s \in 1..Len(weekly_schedule) :
                  \E f \in 1..Len(weekly_schedule[s].focus_projects) :
                    weekly_schedule[s].focus_projects[f].name = name}
  IN  IF weeks = {} THEN 0 ELSE CHOOSE s \in weeks : \A t \in weeks : s <= t

\* the i-th selected project is taken before the j-th: it is longer, or as
\* long and earlier in the list
TakenBefore(i, j) ==
  \/ SelectedProjects[i].estimated_weeks > SelectedProjects[j].estimated_weeks
  \/ /\ SelectedProjects[i].estimated_weeks = SelectedProjects[j].estimated_weeks
     /\ i < j

\* the cursor when the i-th selected project is taken: 1 + the weeks of the
\* placed projects taken before it
RECURSIVE CursorFrom(_, _)
CursorFrom(i, j) ==
  IF j > Len(SelectedProjects) THEN 1
  ELSE (IF TakenBefore(j, i) /\ StartWeek(SelectedProjects[j].name) > 0
        THEN SelectedProjects[j].estimated_weeks ELSE 0)
       + CursorFrom(i, j + 1)

\* C18: only the first required_count projects are considered, longest first
\* and in list order among equal durations, with a cursor starting at week 1: a
\* project that does not fit at the cursor (cursor + duration - 1 >
\* weeks_available) is skipped and the later ones are still tried; a project
\* that fits starts at the cursor and advances it by its duration, so no week
\* has two projects.
C18_GreedyLongestFirst ==
  pc = "scheduled" =>
    LET days == Val(schedule_call).days_remaining
        selected_names ==
          {SelectedProjects[i].name : i \in 1..Len(SelectedProjects)}
    IN  /\ \A s \in 1..Len(weekly_schedule) :
             /\ Len(weekly_schedule[s].focus_projects) <= 1
             /\ \A f \in 1..Len(weekly_schedule[s].focus_projects) :
                  weekly_schedule[s].focus_projects[f].name \in selected_names
        /\ \A i \in 1..Len(SelectedProjects) :
             LET cursor == CursorFrom(i, 1)
                 fits == 7 * (cursor + SelectedProjects[i].estimated_weeks - 2) < days
             IN  IF fits THEN StartWeek(SelectedProjects[i].name) = cursor
                 ELSE StartWeek(SelectedProjects[i].name) = 0

\* a project of 2 weeks is skipped at week 4 of 4 and the project of 1 week
\* taken after it is placed in week 4
C18_ShorterPlacedAfterSkip ==
  /\ pc = "scheduled"
  /\ Val(schedule_call).days_remaining = 28
  /\ \E i, j \in 1..Len(SelectedProjects) :
       /\ SelectedProjects[i].estimated_weeks = 2
       /\ SelectedProjects[j].estimated_weeks = 1
       /\ StartWeek(SelectedProjects[i].name) = 0
       /\ StartWeek(SelectedProjects[j].name) = 4

\* C19: for a placed project of d weeks starting at week s, each bucket s+k, k
\* in 0..d-1, lists the project with week_in_progress = k+1 and total_weeks =
\* d; the project is among the started ones in week s only and among the
\* continued ones in weeks s+1..s+d-1; no bucket has an empty focus_projects.
C19_EveryWeekListsProject ==
  pc = "scheduled" =>
    /\ \A s \in 1..Len(weekly_schedule) :
         weekly_schedule[s].focus_projects # <<>>
    /\ \A s \in 1..Len(weekly_schedule) :
         \A f \in 1..Len(weekly_schedule[s].focus_projects) :
           LET project == weekly_schedule[s].focus_projects[f]
           IN  project.week_in_progress = 1 =>
                 \A k \in 0..(project.total_weeks - 1) :
                   /\ s + k <= Len(weekly_schedule)
                   /\ \E g \in 1..Len(weekly_schedule[s + k].focus_projects) :
                        /\ weekly_schedule[s + k].focus_projects[g].name = project.name
                        /\ weekly_schedule[s + k].focus_projects[g].week_in_progress
                             = k + 1
                        /\ weekly_schedule[s + k].focus_projects[g].total_weeks
                             = project.total_weeks
                   /\ LET goals == Val(weekly_schedule[s + k].weekly_goals)
                          started == {goals.start[g].name : g \in 1..Len(goals.start)}
                          continued ==
                            {goals.continue[g].name : g \in 1..Len(goals.continue)}
                      IN  IF k = 0
                          THEN project.name \in started /\ project.name \notin continued
                          ELSE project.name \in continued /\ project.name \notin started

(***************************************************************************)
(* SpecOrder: the same completed projects listed in another order, listed  *)
(* twice, or analysed again                                                *)
(***************************************************************************)
MaxListed == 3

\* the records the lists are made of
OrderRecords ==
  { Rec(Some("libft"), Some("libft")),
    Rec(Some("Libft"), Some("42cursus-libft")),
    Rec(Some("ft_printf"), Some("ft_printf")),
    Rec(Some("get_next_line"), Some("42cursus-get_next_line")),
    Rec(Some("Born2beroot"), Some("born2beroot")),
    Rec(Some("Exam Rank 02"), None),
    Rec(None, None) }

RECURSIVE ListsUpTo(_)
ListsUpTo(n) ==
  IF n = 0 THEN {<<>>}
  ELSE LET shorter == ListsUpTo(n - 1)
       IN  shorter \cup {Append(list, r) : list \in shorter, r \in OrderRecords}

InitOrder ==
  /\ pc = "listed"
  /\ completed_projects \in ListsUpTo(MaxListed)
  /\ circle_info = _calculate_circle_progress(completed_projects)
  /\ Unset({"completed_projects", "circle_info"})

\* two neighbours of the list change places
SwapRecords ==
  /\ pc = "listed"
  /\ \E i \in 1..(Len(completed_projects) - 1) :
       /\ completed_projects[i] # completed_projects[i + 1]
       /\ completed_projects' =
            [completed_projects EXCEPT ![i] = completed_projects[i + 1],
                                       ![i + 1] = completed_projects[i]]
  /\ circle_info' = _calculate_circle_progress(completed_projects')
  /\ UNCHANGED <<pc, blackholed_at, begin_at, current_date, level, deadlineVars,
                 remaining_projects, risk_level, planVars, apiVars>>

\* a record of the list is listed once more
DuplicateRecord ==
  /\ pc = "listed"
  /\ Len(completed_projects) <= MaxListed
  /\ \E i \in 1..Len(completed_projects) :
       completed_projects' = Append(completed_projects, completed_projects[i])
  /\ circle_info' = _calculate_circle_progress(completed_projects')
  /\ UNCHANGED <<pc, blackholed_at, begin_at, current_date, level, deadlineVars,
                 remaining_projects, risk_level, planVars, apiVars>>

\* the same list is analysed a second time
RunAgain ==
  /\ pc = "listed"
  /\ pc' = "listed again"
  /\ circle_info' = _calculate_circle_progress(completed_projects)
  /\ UNCHANGED <<blackholed_at, begin_at, current_date, level, completed_projects,
                 deadlineVars, remaining_projects, risk_level, planVars, apiVars>>

NextOrder == SwapRecords \/ DuplicateRecord \/ RunAgain

SpecOrder == InitOrder /\ [][NextOrder]_vars

\* C16: _calculate_circle_progress is a function of the set of completed
\* projects: a second run on the same list, a list in another order and a list
\* with a record repeated all give the same result.
C16_OrderAndRepeatsIgnored ==
  [][circle_info' = circle_info]_vars

\* circle 1 and circle 2 cleared by a list of four records that is out of
\* catalog order and has a record twice, analysed twice
C16_ShuffledWithRepeat ==
  /\ pc = "listed again"
  /\ Len(completed_projects) = MaxListed + 1
  /\ completed_projects[1] = Rec(Some("get_next_line"), Some("42cursus-get_next_line"))
  /\ completed_projects[3] = Rec(Some("Libft"), Some("42cursus-libft"))
  /\ completed_projects[4] = completed_projects[1]
  /\ circle_info.current_circle = 3

(***************************************************************************)
(* SpecCatalog: _calculate_circle_progress over catalogs other than the    *)
(* built-in one, as get_42_circle_structure could return them              *)
(***************************************************************************)
MaxQuorum == 2

Circle(required_projects, min_projects) ==
  [required_projects |-> required_projects, min_projects |-> min_projects]

\* catalogs of three circles; a gating set may be empty and a quorum 0
Catalogs ==
  { << Circle(first, q1), Circle(<<"get_next_line", "ft_printf">>, q2),
       Circle(last, q3) >> :
      first \in {<<"libft">>, <<>>}, last \in {<<"push_swap">>, <<>>},
      q1 \in 0..MaxQuorum, q2 \in 0..MaxQuorum, q3 \in 0..MaxQuorum }

\* the learner's histories: nothing, or some of four projects
CatalogHistories ==
  { <<>>,
    <<Rec(Some("libft"), Some("libft"))>>,
    <<Rec(Some("push_swap"), Some("push_swap"))>>,
    <<Rec(Some("libft"), Some("libft")), Rec(Some("push_swap"), Some("push_swap"))>>,
    <<Rec(Some("libft"), Some("libft")), Rec(Some("ft_printf"), Some("ft_printf"))>>,
    <<Rec(Some("libft"), Some("libft")), Rec(Some("ft_printf"), Some("ft_printf")),
      Rec(Some("get_next_line"), Some("get_next_line"))>> }

InitCatalog ==
  /\ pc = "catalog"
  /\ circle_structure \in Catalogs
  /\ completed_projects \in CatalogHistories
  /\ Unset({"circle_structure", "completed_projects"})

\* _calculate_circle_progress with that catalog: it returns the dict, whatever
\* the catalog holds
AnalyseWithCatalog ==
  /\ pc = "catalog"
  /\ pc' = "analysed"
  /\ circle_info' = CircleProgress(circle_structure, completed_projects)
  /\ result' = circle_info'
  /\ UNCHANGED <<inputVars, deadlineVars, remaining_projects, risk_level, planVars,
                 circle_structure, responses, page, user_projects, http_status>>

NextCatalog == AnalyseWithCatalog

SpecCatalog == InitCatalog /\ [][NextCatalog]_vars

\* a circle with quorum 0 or with no gating project
InvalidCatalog(catalog) ==
  \E c \in 1..Len(catalog) :
    catalog[c].min_projects = 0 \/ catalog[c].required_projects = <<>>

CircleProgressParameters == 1

\* a call of the bound method with positional arguments: Python raises
\* TypeError when their number is not the number of parameters
CallCircleProgress(args) ==
  IF Len(args) = CircleProgressParameters
  THEN [returned |-> _calculate_circle_progress(args[1])]
  ELSE [raised |-> "TypeError"]

\* what the endpoint answers: the handler catches nothing, so an exception
\* becomes the server's 500 answer
CircleAnswer(outcome) ==
  IF "raised" \in DOMAIN outcome
  THEN [body |-> [error |-> "Internal Server Error"], code |-> 500]
  ELSE [body |-> outcome.returned, code |-> 200]

InitCircle ==
  /\ pc = "circle request"
  /\ completed_projects \in ListsUpTo(MaxListed)
  /\ level \in {Some(0), Some(300)}
  /\ Unset({"completed_projects", "level"})

\* circle(): completed_projects and current_level are read from the body and
\* both are passed to _calculate_circle_progress
CircleEndpoint ==
  /\ pc = "circle request"
  /\ pc' = "circle answered"
  /\ \E answer \in {CircleAnswer(CallCircleProgress(<<completed_projects, Val(level)>>))} :
       /\ result' = answer.body
       /\ http_status' = answer.code
  /\ UNCHANGED <<inputVars, deadlineVars, progressVars, risk_level, planVars,
                 circle_structure, responses, page, user_projects>>

NextCircle == CircleEndpoint

SpecCircle == InitCircle /\ [][NextCircle]_vars

\* C17: POST /api/circle answers, for every list and level of the body, the
\* progress _calculate_circle_progress derives from the list, and never a
\* failure.
C17_CircleEndpointAnswers ==
  pc = "circle answered" =>
    /\ http_status = 200
    /\ result = _calculate_circle_progress(completed_projects)

(***************************************************************************)
(* SpecApi: GET /api/escape/<login>, from the requests to the 42 API to    *)
(* the HTTP answer                                                         *)
(***************************************************************************)
\* page_size of get_all_paginated_data, scaled down
PageSize == 2
\* the page after which get_all_paginated_data stops
PageLimit == 10
MaxProjectsUsers == 5

ProjectUser(status, final_mark, project) ==
  [status |-> status, final_mark |-> final_mark, project |-> project]

\* the projects_users records of the learner, in the order the API lists them
AllProjectsUsers ==
  << ProjectUser("finished", Some(100), Some(Rec(Some("Libft"), Some("42cursus-libft")))),
     ProjectUser("finished", Some(40), Some(Rec(Some("ft_printf"), Some("ft_printf")))),
     ProjectUser("finished", Some(100), Some(Rec(Some("get_next_line"), Some("get_next_line")))),
     ProjectUser("finished", Some(80), Some(Rec(Some("ft_printf"), Some("ft_printf")))),
     ProjectUser("in_progress", None, Some(Rec(Some("push_swap"), Some("push_swap")))),
     ProjectUser("finished", Some(100), None),
     ProjectUser("finished", Some(90), Some(Rec(Some("push_swap"), Some("push_swap")))) >>

CursusUser(is_42, deadline_text, start_text, cursus_level) ==
  [is_42 |-> is_42, blackholed_at |-> deadline_text, begin_at |-> start_text, level |-> cursus_level]

\* a cursus_users record of the 42 cursus and one of another cursus
Cursus42 ==
  CursusUser(TRUE, Some(Timestamp("utc", 45 * UnitsPerDay)),
             Some(Timestamp("utc", (StartPoint - blackhole_period_days) * UnitsPerDay)),
             Some(0))
CursusOther == CursusUser(FALSE, None, None, Some(300))

\* the first cursus named 42 or with cursus_id 1, else the first cursus
MainCursus(cursus_users) ==
  LET named == {i \in 1..Len(cursus_users) : cursus_users[i].is_42}
  IN  IF named = {} THEN cursus_users[1]
      ELSE cursus_users[CHOOSE i \in named : \A j \in named : i <= j]

\* _get_completed_projects: finished or success, final_mark at least 50, a
\* project in the record
_get_completed_projects(projects_users) ==
  LET completed ==
        SelectSeq(projects_users,
                  LAMBDA project_user :
                    /\ project_user.status \in {"finished", "success"}
                    /\ project_user.final_mark # None
                    /\ Val(project_user.final_mark) >= 50
                    /\ project_user.project # None)
  IN  [i \in 1..Len(completed) |-> Val(completed[i].project)]

\* make_api_request for one page of /v2/projects_users: {} when the request
\* fails, else the records of the page
ProjectsPage(api, page_number) ==
  IF page_number = api.fail_at THEN None
  ELSE Some(SubSeq(api.projects_users, (page_number - 1) * PageSize + 1,
                   Min(page_number * PageSize, Len(api.projects_users))))

ErrorResult(message) == [error |-> message]

InitApi ==
  /\ pc = "lookup"
  /\ current_date = [tz |-> TRUE, t |-> 0]
  /\ \E user_info \in {None, Some([id |-> None]), Some([id |-> Some(1)])},
        cursus_users \in {<<>>, <<Cursus42>>, <<CursusOther>>, <<CursusOther, Cursus42>>},
        n \in 0..MaxProjectsUsers :
       \E fail_at \in 0..((n \div PageSize) + 1) :
         responses = [ user_info |-> user_info, cursus_users |-> cursus_users,
                       projects_users |-> SubSeq(AllProjectsUsers, 1,
                                                 Min(n, Len(AllProjectsUsers))),
                       fail_at |-> fail_at ]
  /\ page = 0
  /\ Unset({"current_date", "responses", "page"})

\* get_user_info and the two early returns of calculate_blackhole_status
LookupUser ==
  /\ pc = "lookup"
  /\ IF responses.user_info = None
     THEN result' = ErrorResult("User not found") /\ pc' = "returned"
     ELSE IF Val(responses.user_info).id = None
          THEN result' = ErrorResult("Could not get user ID") /\ pc' = "returned"
          ELSE result' = result /\ pc' = "cursus"
  /\ UNCHANGED <<inputVars, deadlineVars, progressVars, risk_level, planVars,
                 circle_structure, responses, page, user_projects, http_status>>

\* get_user_cursus_users, the third early return, the choice of main_cursus
\* and the start of get_user_projects
FetchCursus ==
  /\ pc = "cursus"
  /\ IF responses.cursus_users = <<>>
     THEN /\ result' = ErrorResult("No cursus information found")
          /\ pc' = "returned"
          /\ UNCHANGED <<blackholed_at, begin_at, level, page, user_projects>>
     ELSE /\ blackholed_at' = MainCursus(responses.cursus_users).blackholed_at
          /\ begin_at' = MainCursus(responses.cursus_users).begin_at
          /\ level' = MainCursus(responses.cursus_users).level
          /\ page' = 1
          /\ user_projects' = <<>>
          /\ pc' = "projects"
          /\ result' = result
  /\ UNCHANGED <<current_date, completed_projects, deadlineVars, progressVars,
                 risk_level, planVars, circle_structure, responses, http_status>>

\* one turn of the loop of get_all_paginated_data
FetchPage ==
  /\ pc = "projects"
  /\ \E data \in {ProjectsPage(responses, page)} :
       IF data = None \/ Val(data) = <<>>
       THEN pc' = "fetched" /\ UNCHANGED <<page, user_projects>>
       ELSE /\ user_projects' = user_projects \o Val(data)
            /\ IF Len(Val(data)) < PageSize
               THEN pc' = "fetched" /\ page' = page
               ELSE /\ page' = page + 1
                    /\ pc' = IF page' > PageLimit THEN "fetched" ELSE "projects"
  /\ UNCHANGED <<inputVars, deadlineVars, progressVars, risk_level, planVars,
                 circle_structure, responses, result, http_status>>

\* the rest of calculate_blackhole_status and generate_escape_plan
ComputePlan ==
  /\ pc = "fetched"
  /\ completed_projects' = _get_completed_projects(user_projects)
  /\ \E status \in {StatusOf(blackholed_at, begin_at, current_date, level,
                             completed_projects')} :
       /\ circle_info' = status.circle_info
       /\ result' = [status |-> status, escape_plan |-> EscapePlan(status, current_date)]
  /\ pc' = "returned"
  /\ UNCHANGED <<blackholed_at, begin_at, current_date, level, deadlineVars,
                 remaining_projects, risk_level, planVars, circle_structure,
                 responses, page, user_projects, http_status>>

\* result.get("status", {}).get("error") in escape()
StatusError(answer) ==
  IF "status" \in DOMAIN answer /\ "error" \in DOMAIN answer.status
  THEN Some(answer.status.error) ELSE None

\* escape(): 404 when the status of the result holds an error, else 200
Respond ==
  /\ pc = "returned"
  /\ http_status' = IF StatusError(result) # None THEN 404 ELSE 200
  /\ pc' = "answered"
  /\ UNCHANGED <<inputVars, deadlineVars, progressVars, risk_level, planVars,
                 circle_structure, responses, page, user_projects, result>>

NextApi == LookupUser \/ FetchCursus \/ FetchPage \/ ComputePlan \/ Respond

SpecApi == InitApi /\ [][NextApi]_vars

\* the analysis ended in one of the three not-found returns
NotFound ==
  \/ responses.user_info = None
  \/ Val(responses.user_info).id = None
  \/ responses.cursus_users = <<>>

\* C11: a not-found analysis gives an error outcome with no status report, and
\* the endpoint answers it with 404, never with 200.
C11_NotFoundAnswered404 ==
  pc = "answered" /\ NotFound =>
    /\ "error" \in DOMAIN result
    /\ "status" \notin DOMAIN result
    /\ http_status = 404

\* the request for a page of the learner's projects failed
ProjectsRequestFailed ==
  /\ pc \in {"fetched", "returned", "answered"}
  /\ responses.fail_at > 0
  /\ page = responses.fail_at

\* C12: when the request for a page of the learner's projects fails, the
\* result is a failure, not a report.
C12_FailedFetchIsFailure ==
  ProjectsRequestFailed /\ pc \in {"returned", "answered"} =>
    "error" \in DOMAIN result

\* the deadline, the day count, the risk and the plan of an unknown deadline
UnknownOutcome ==
  /\ blackhole_date = None
  /\ days_until_blackhole = None
  /\ is_blackholed = FALSE
  /\ risk_level = "UNKNOWN"
  /\ DOMAIN escape_plan = {"message", "recommendations"}
  /\ escape_plan.message = "SAFE_FOR_NOW"

\* a timestamp text that is present and that the resolver cannot use
Unparsable(text) == text # None /\ Val(text).form \notin {"empty", "utc"}

\* C13, as stated: a timestamp that is present but unparsable gives the
\* unknown deadline: when blackholed_at is unparsable whatever begin_at is, and
\* when blackholed_at is absent and begin_at is unparsable; the analysis then
\* has risk UNKNOWN and the safe-for-now plan.
C13_UnparsableIsUnknown ==
  pc = "done" =>
    /\ Unparsable(blackholed_at) => UnknownOutcome
    /\ (blackholed_at = None /\ Unparsable(begin_at)) => UnknownOutcome

\* C13, amended: an unparsable timestamp is treated as absent. When
\* blackholed_at is unparsable the deadline is begin_at + 392 days if begin_at
\* parses and unknown otherwise; when blackholed_at is absent and begin_at is
\* unparsable the deadline is unknown; an unknown deadline gives risk UNKNOWN
\* and the safe-for-now plan.
C13_UnparsableIsAbsent ==
  pc = "done" =>
    /\ (Unparsable(blackholed_at) /\ (begin_at = None \/ Unparsable(begin_at)))
         => UnknownOutcome
    /\ (blackholed_at = None /\ Unparsable(begin_at)) => UnknownOutcome
    /\ (Unparsable(blackholed_at) /\ begin_at # None /\ Val(begin_at).form = "utc")
         => /\ blackhole_date =
                 Some([tz |-> TRUE, t |-> Val(begin_at).t + 392 * UnitsPerDay])
            /\ days_until_blackhole # None
            /\ risk_level # "UNKNOWN"

\* an unparsable blackholed_at with a begin_at that parses: the deadline is the
\* one computed from begin_at
C13_FallsBackToStart ==
  /\ pc = "done"
  /\ Unparsable(blackholed_at)
  /\ begin_at # None /\ Val(begin_at).form = "utc"
  /\ days_until_blackhole # None
  /\ Val(days_until_blackhole) > 0
  /\ "weekly_schedule" \in DOMAIN escape_plan

\* a learner without completed project whose deadline is 10 days out
NewLearnerTenDaysOut ==
  /\ pc = "done"
  /\ completed_projects = <<>>
  /\ days_until_blackhole = Some(10)

\* C15, as stated: for a learner with no completed project and 10 days left,
\* current_circle is the first circle with all its gating ids missing, the
\* risk is CRITICAL and the weekly schedule is empty or timeline_feasible is
\* false.
C15_TenDaysEmptyOrInfeasible ==
  NewLearnerTenDaysOut =>
    /\ circle_info.current_circle = 1
    /\ circle_info.missing_projects = get_42_circle_structure[1].required_projects
    /\ risk_level = "CRITICAL"
    /\ "weekly_schedule" \in DOMAIN escape_plan
    /\ escape_plan.weekly_schedule = <<>> \/ escape_plan.timeline_feasible = FALSE

\* C15, amended: for a learner with no completed project and 10 days left,
\* current_circle is the first circle with all its gating ids missing, the
\* risk is CRITICAL, and the full plan has 2 weeks available, libft placed in
\* weeks 1 and 2 and timeline_feasible true.
C15_TenDaysLibftFits ==
  NewLearnerTenDaysOut =>
    /\ circle_info.current_circle = 1
    /\ circle_info.missing_projects = get_42_circle_structure[1].required_projects
    /\ risk_level = "CRITICAL"
    /\ "weekly_schedule" \in DOMAIN escape_plan
    /\ escape_plan.weeks_available = 2
    /\ escape_plan.timeline_feasible = TRUE
    /\ Len(escape_plan.weekly_schedule) = 2
    /\ escape_plan.weekly_schedule[1].week = 1
    /\ escape_plan.weekly_schedule[2].week = 2
    /\ Len(escape_plan.weekly_schedule[1].focus_projects) = 1
    /\ escape_plan.weekly_schedule[1].focus_projects[1].name = "libft"

\* the plan of that learner: libft scheduled, the timeline feasible
C15_NewLearnerPlan ==
  /\ NewLearnerTenDaysOut
  /\ risk_level = "CRITICAL"
  /\ escape_plan.timeline_feasible = TRUE
  /\ escape_plan.weekly_schedule # <<>>

\* some record has a non-empty normalized name or slug that contains, or is
\* contained in, the normalized gating id
NamedMatch(project, records) ==
  \E k \in 1..Len(records) :
    \E name \in {records[k].name, records[k].slug} :
      /\ Normalized(name) # ""
      /\ NameMatches(Normalized(Some(project)), Normalized(name))

\* the gating projects of a circle that have such a match
NamedMatches(c, records) ==
  LET required_projects == get_42_circle_structure[c].required_projects
  IN  {i \in 1..Len(required_projects) : NamedMatch(required_projects[i], records)}

\* C23: a gating project of the current circle is absent from missing_projects
\* and from remaining_projects only if a completed record has a non-empty
\* normalized name or slug matching it, and current_circle is past a circle only
\* if the quorum of that circle has such matches: a record with a missing or
\* empty name or slug by itself completes nothing.
C23_EmptyNamesCountForNothing ==
  pc = "progress" =>
    LET current == get_42_circle_structure[circle_info.current_circle]
        missing == {circle_info.missing_projects[i] :
                      i \in 1..Len(circle_info.missing_projects)}
        remaining == {remaining_projects[i].name : i \in 1..Len(remaining_projects)}
    IN  /\ \A i \in 1..Len(current.required_projects) :
             \/ NamedMatch(current.required_projects[i], completed_projects)
             \/ /\ current.required_projects[i] \in missing
                /\ current.required_projects[i] \in remaining
        /\ \A c \in 1..(circle_info.current_circle - 1) :
             Cardinality(NamedMatches(c, completed_projects))
               >= get_42_circle_structure[c].min_projects

(***************************************************************************)
(* SpecTrack: the progress of a learner, then the risk for a day count     *)
(***************************************************************************)
InitTrack ==
  /\ pc = "track"
  /\ \E k \in 0..NumCircles :
       completed_projects \in {BaseHistory(k)}
                              \cup {Append(BaseHistory(k), r) : r \in ExtraRecords}
  /\ Unset({"completed_projects"})

\* circle_info as calculate_blackhole_status computes it
AnalyseProgress ==
  /\ pc = "track"
  /\ circle_info' = _calculate_circle_progress(completed_projects)
  /\ pc' = "tracked"
  /\ UNCHANGED <<inputVars, deadlineVars, remaining_projects, risk_level, planVars,
                 apiVars>>

\* risk_level for that circle_info, a day count and a level
RateRisk ==
  /\ pc = "tracked"
  /\ \E days \in (0 - 1)..MaxRiskDays, current_level \in {Some(0), Some(300)} :
       /\ days_until_blackhole' = Some(days)
       /\ level' = current_level
       /\ risk_level' = _calculate_risk_level(Some(days), current_level, circle_info)
  /\ pc' = "rated"
  /\ UNCHANGED <<blackholed_at, begin_at, current_date, completed_projects,
                 blackhole_date, is_blackholed, progressVars, planVars, apiVars>>

NextTrack == AnalyseProgress \/ RateRisk

SpecTrack == InitTrack /\ [][NextTrack]_vars

\* C22: with the catalog's quorums, all at least 1, a learner whose
\* current_circle is below the last circle is never on track and has at least
\* one project remaining in the circle, so is_on_track is true in the last
\* circle only, and for such a learner every day count in 91..180 is rated LOW.
C22_OnTrackOnlyInLastCircle ==
  pc \in {"tracked", "rated"} /\ circle_info.current_circle < NumCircles =>
    /\ ~circle_info.is_on_track
    /\ circle_info.remaining_in_current >= 1
    /\ pc = "rated" /\ Val(days_until_blackhole) \in (MediumDays + 1)..LowOffTrackDays
         => risk_level = "LOW"

\* a learner of level 3 in circle 3 with one of its projects done, 180 days
\* from the deadline: LOW by the rule of the learners not on track
C22_LowInThirdCircle ==
  /\ pc = "rated"
  /\ circle_info.current_circle = 3
  /\ circle_info.completed_in_current = 1
  /\ ~circle_info.is_on_track
  /\ level = Some(300)
  /\ days_until_blackhole = Some(LowOffTrackDays)
  /\ risk_level = "LOW"

\* the missing projects of the current circle, in the order of the catalog
InCurriculumOrder(names) ==
  \E c \in 1..NumCircles :
    names = SelectSeq(get_42_circle_structure[c].required_projects,
                      LAMBDA project : \E i \in 1..Len(names) : names[i] = project)

\* C21: generate_escape_plan leaves status.remaining_projects, with its order,
\* status.circle_info and status.risk_level as calculate_blackhole_status made
\* them, the call of the scheduler included, and priority_projects of a full
\* plan lists the remaining projects in that order, the order of the catalog.
C21_SchedulerKeepsItsInput ==
  [][pc' = "done" =>
       /\ remaining_projects' = remaining_projects
       /\ circle_info' = circle_info
       /\ risk_level' = risk_level
       /\ schedule_call' # None =>
            /\ escape_plan'.priority_projects = ProjectNames(remaining_projects)
            /\ InCurriculumOrder(escape_plan'.priority_projects)]_vars

\* a full plan whose scheduler sorted get_next_line (1 week) behind ft_printf
\* (2 weeks): priority_projects still starts with get_next_line
C21_SortedCopyOnly ==
  /\ pc = "done"
  /\ schedule_call # None
  /\ Val(schedule_call).required_count = 2
  /\ weekly_schedule # <<>>
  /\ weekly_schedule[1].focus_projects[1].name = "ft_printf"
  /\ escape_plan.priority_projects = <<"get_next_line", "ft_printf", "born2beroot">>
  /\ ProjectNames(remaining_projects) = escape_plan.priority_projects
====
